---- MODULE Spec2Model ----
(***************************************************************************)
(* Model of the Brainfuck derivative calculator:                           *)
(*   - bf_interpreter.run_bf  : the interpreter, as a state machine        *)
(*   - bf_codegen.BF          : the cursor-tracked emitter and its macros  *)
(*   - bf_codegen.generate    : the derivative-calculator program          *)
(* Characters are one-character strings; bytes and output characters are   *)
(* their code points.  Positions in ops are 0-based as in the source, so   *)
(* the instruction at position i is ops[i + 1].                            *)
(***************************************************************************)
EXTENDS Integers, Sequences, FiniteSets, TLC

VARIABLES
    input_bytes, \* run_bf argument input_str, encoded (line 43)
    cell_size,   \* run_bf argument
    max_steps,   \* run_bf argument
    ops,         \* line 22: the significant characters of the argument code
    brackets,    \* line 25: the jump table
    stack,       \* line 26: the open brackets not yet closed
    scan,        \* line 27: the position i of the bracket scan
    tape,        \* line 40: the nonzero cells of the tape (index -> value)
    tape_len,    \* len(tape)
    ptr,         \* line 41
    ip,          \* line 42
    input_pos,   \* line 44
    output,      \* line 45
    steps,       \* line 46
    phase,       \* "load", "run", "done" (returned), "raised"
    ret,         \* what the call gave back: the returned string or the error
    reads        \* history: number of Read instructions executed

vars == <<input_bytes, cell_size, max_steps, ops, brackets, stack, scan,
          tape, tape_len, ptr, ip, input_pos, output, steps, phase, ret, reads>>

-----------------------------------------------------------------------------
(* The instruction alphabet.                                               *)

BFChars == {">", "<", "+", "-", ".", ",", "[", "]"}

\* A character that is not an instruction (a comment character).
CommentChar == "x"

IsBF(c) == c \in BFChars

\* line 22: ops = [c for c in code if c in "><+-.,[]"]
Strip(text) == SelectSeq(text, IsBF)

-----------------------------------------------------------------------------
(* The tape.  Python holds a list of tape_len integers that is zero almost *)
(* everywhere; the model keeps the nonzero cells and the length.           *)

TapeInitLen == 30000

TapeGrowBy == 1000

Cell(t, i) == IF i \in DOMAIN t THEN t[i] ELSE 0

Store(t, i, v) ==
    IF v = 0
    THEN [j \in (DOMAIN t) \ {i} |-> t[j]]
    ELSE [j \in (DOMAIN t) \cup {i} |-> IF j = i THEN v ELSE t[j]]

EmptyTape == [j \in {} |-> 0]

-----------------------------------------------------------------------------
(* run_bf.                                                                 *)

\* line 5: the defaults of cell_size and max_steps
DefaultCellSize == 256

DefaultMaxSteps == 1000000

NoBrackets == [j \in {} |-> 0]

NoReturn == [kind |-> "none"]

\* input_str.encode("latin-1"): each character becomes the byte of its code point.
Latin1(s) == [i \in 1..Len(s) |-> s[i] % 256]

\* The state once lines 22-26 and the initialisations of lines 40-46 are done
\* (ops is set by the caller of Fresh: line 22 applied to the argument code):
\* nothing of the execution state changes before the bracket scan is over.
Fresh ==
    /\ brackets = NoBrackets
    /\ stack = <<>>
    /\ scan = 0
    /\ tape = EmptyTape
    /\ tape_len = TapeInitLen
    /\ ptr = 0
    /\ ip = 0
    /\ input_pos = 0
    /\ output = <<>>
    /\ steps = 0
    /\ phase = "load"
    /\ ret = NoReturn
    /\ reads = 0

args == <<input_bytes, cell_size, max_steps, ops>>

loaded == <<brackets, stack, scan>>

exec == <<tape, tape_len, ptr, ip, input_pos, output, steps, reads>>

\* The scan pairing a "]" with the oldest open "[" instead of the newest
\* (line 33 with stack.pop(0)).
Scan_fifo ==
    /\ phase = "load"
    /\ scan < Len(ops)
    /\ LET op == ops[scan + 1]
       IN IF op = "["
          THEN /\ stack' = Append(stack, scan)
               /\ scan' = scan + 1
               /\ UNCHANGED <<brackets, phase, ret>>
          ELSE IF op = "]"
               THEN IF stack = <<>>
                    THEN /\ phase' = "raised"
                         /\ ret' = [kind |-> "RuntimeError",
                                    what |-> "unmatched_close", pos |-> scan]
                         /\ UNCHANGED <<brackets, stack, scan>>
                    ELSE LET j == stack[1]
                         IN /\ stack' = Tail(stack)
                            /\ brackets' =
                                   [k \in (DOMAIN brackets) \cup {scan, j} |->
                                       IF k = j THEN scan
                                       ELSE IF k = scan THEN j ELSE brackets[k]]
                            /\ scan' = scan + 1
                            /\ UNCHANGED <<phase, ret>>
               ELSE /\ scan' = scan + 1
                    /\ UNCHANGED <<brackets, stack, phase, ret>>
    /\ UNCHANGED <<args, exec>>

\* lines 27-35: one iteration of the bracket scan, at position scan.
Scan ==
    /\ phase = "load"
    /\ scan < Len(ops)
    /\ LET op == ops[scan + 1]
       IN IF op = "["
          THEN /\ stack' = Append(stack, scan)
               /\ scan' = scan + 1
               /\ UNCHANGED <<brackets, phase, ret>>
          ELSE IF op = "]"
               THEN IF stack = <<>>
                    THEN /\ phase' = "raised"
                         /\ ret' = [kind |-> "RuntimeError",
                                    what |-> "unmatched_close", pos |-> scan]
                         /\ UNCHANGED <<brackets, stack, scan>>
                    ELSE LET j == stack[Len(stack)]
                         IN /\ stack' = SubSeq(stack, 1, Len(stack) - 1)
                            /\ brackets' =
                                   [k \in (DOMAIN brackets) \cup {scan, j} |->
                                       IF k = j THEN scan
                                       ELSE IF k = scan THEN j ELSE brackets[k]]
                            /\ scan' = scan + 1
                            /\ UNCHANGED <<phase, ret>>
               ELSE /\ scan' = scan + 1
                    /\ UNCHANGED <<brackets, stack, phase, ret>>
    /\ UNCHANGED <<args, exec>>

\* Start without the check of lines 36-37
Start_nocheck ==
    /\ phase = "load"
    /\ scan >= Len(ops)
    /\ phase' = "run"
    /\ UNCHANGED <<args, exec, brackets, stack, scan, ret>>

\* lines 36-37: after the scan, an open bracket left on the stack is an error;
\* otherwise execution starts.
Start ==
    /\ phase = "load"
    /\ scan >= Len(ops)
    /\ IF stack # <<>>
       THEN /\ phase' = "raised"
            /\ ret' = [kind |-> "RuntimeError", what |-> "unmatched_open",
                       pos |-> stack[Len(stack)]]
       ELSE /\ phase' = "run"
            /\ ret' = ret
    /\ UNCHANGED <<args, exec, brackets, stack, scan>>

\* lines 48-55: the loop test, the step count and its check, the fetch.
Fetch(c) ==
    /\ phase = "run"
    /\ ip < Len(ops)
    /\ steps + 1 <= max_steps
    /\ ops[ip + 1] = c

\* the budget check of line 50 with >= for >
Timeout_early ==
    /\ phase = "run"
    /\ ip < Len(ops)
    /\ steps + 1 >= max_steps
    /\ steps' = steps + 1
    /\ phase' = "raised"
    /\ ret' = [kind |-> "RuntimeError", what |-> "timeout", max |-> max_steps,
               output |-> output]
    /\ UNCHANGED <<args, loaded, tape, tape_len, ptr, ip, input_pos,
                   output, reads>>

\* lines 49-53: the budget is exceeded; the error carries the output so far.
Timeout ==
    /\ phase = "run"
    /\ ip < Len(ops)
    /\ steps + 1 > max_steps
    /\ steps' = steps + 1
    /\ phase' = "raised"
    /\ ret' = [kind |-> "RuntimeError", what |-> "timeout", max |-> max_steps,
               output |-> output]
    /\ UNCHANGED <<args, loaded, tape, tape_len, ptr, ip, input_pos,
                   output, reads>>

\* lines 56-59 and 82
MoveRight ==
    /\ Fetch(">")
    /\ steps' = steps + 1
    /\ ptr' = ptr + 1
    /\ tape_len' = IF ptr + 1 >= tape_len THEN tape_len + TapeGrowBy ELSE tape_len
    /\ ip' = ip + 1
    /\ UNCHANGED <<args, loaded, tape, input_pos, output, phase, ret, reads>>

\* MoveLeft without the check of lines 62-63
MoveLeft_nocheck ==
    /\ Fetch("<")
    /\ steps' = steps + 1
    /\ ptr' = ptr - 1
    /\ ip' = ip + 1
    /\ UNCHANGED <<args, loaded, tape, tape_len, input_pos, output, phase, ret,
                   reads>>

\* lines 60-63 and 82
MoveLeft ==
    /\ Fetch("<")
    /\ steps' = steps + 1
    /\ ptr' = ptr - 1
    /\ IF ptr - 1 < 0
       THEN /\ phase' = "raised"
            /\ ret' = [kind |-> "RuntimeError", what |-> "bounds", step |-> steps + 1]
            /\ ip' = ip
       ELSE /\ phase' = phase
            /\ ret' = ret
            /\ ip' = ip + 1
    /\ UNCHANGED <<args, loaded, tape, tape_len, input_pos, output, reads>>

\* lines 64-65 and 82
Increment ==
    /\ Fetch("+")
    /\ steps' = steps + 1
    /\ tape' = Store(tape, ptr, (Cell(tape, ptr) + 1) % cell_size)
    /\ ip' = ip + 1
    /\ UNCHANGED <<args, loaded, tape_len, ptr, input_pos, output, phase,
                   ret, reads>>

\* lines 66-67 and 82
Decrement ==
    /\ Fetch("-")
    /\ steps' = steps + 1
    /\ tape' = Store(tape, ptr, (Cell(tape, ptr) - 1) % cell_size)
    /\ ip' = ip + 1
    /\ UNCHANGED <<args, loaded, tape_len, ptr, input_pos, output, phase,
                   ret, reads>>

\* lines 68-69 and 82: chr(v) is the character with code point v.
Write ==
    /\ Fetch(".")
    /\ steps' = steps + 1
    /\ output' = Append(output, Cell(tape, ptr))
    /\ ip' = ip + 1
    /\ UNCHANGED <<args, loaded, tape, tape_len, ptr, input_pos, phase,
                   ret, reads>>

\* Read storing a space at the end of the input (line 75 with 32 for 0)
Read_eof_space ==
    /\ Fetch(",")
    /\ steps' = steps + 1
    /\ IF input_pos < Len(input_bytes)
       THEN /\ tape' = Store(tape, ptr, input_bytes[input_pos + 1])
            /\ input_pos' = input_pos + 1
       ELSE /\ tape' = Store(tape, ptr, 32)
            /\ input_pos' = input_pos
    /\ ip' = ip + 1
    /\ reads' = reads + 1
    /\ UNCHANGED <<args, loaded, tape_len, ptr, output, phase, ret>>

\* Read leaving the cell as it is at the end of the input (lines 74-75 left out)
Read_eof_unchanged ==
    /\ Fetch(",")
    /\ steps' = steps + 1
    /\ IF input_pos < Len(input_bytes)
       THEN /\ tape' = Store(tape, ptr, input_bytes[input_pos + 1])
            /\ input_pos' = input_pos + 1
       ELSE /\ tape' = tape
            /\ input_pos' = input_pos
    /\ ip' = ip + 1
    /\ reads' = reads + 1
    /\ UNCHANGED <<args, loaded, tape_len, ptr, output, phase, ret>>

\* lines 70-75 and 82
Read ==
    /\ Fetch(",")
    /\ steps' = steps + 1
    /\ IF input_pos < Len(input_bytes)
       THEN /\ tape' = Store(tape, ptr, input_bytes[input_pos + 1])
            /\ input_pos' = input_pos + 1
       ELSE /\ tape' = Store(tape, ptr, 0)
            /\ input_pos' = input_pos
    /\ ip' = ip + 1
    /\ reads' = reads + 1
    /\ UNCHANGED <<args, loaded, tape_len, ptr, output, phase, ret>>

\* lines 76-78 and 82
LoopOpen ==
    /\ Fetch("[")
    /\ steps' = steps + 1
    /\ ip' = (IF Cell(tape, ptr) = 0 THEN brackets[ip] ELSE ip) + 1
    /\ UNCHANGED <<args, loaded, tape, tape_len, ptr, input_pos, output,
                   phase, ret, reads>>

\* lines 79-82
LoopClose ==
    /\ Fetch("]")
    /\ steps' = steps + 1
    /\ ip' = (IF Cell(tape, ptr) # 0 THEN brackets[ip] ELSE ip) + 1
    /\ UNCHANGED <<args, loaded, tape, tape_len, ptr, input_pos, output,
                   phase, ret, reads>>

\* lines 48 and 84: the loop ends, the output is returned.
Halt ==
    /\ phase = "run"
    /\ ip >= Len(ops)
    /\ phase' = "done"
    /\ ret' = [kind |-> "return", value |-> output]
    /\ UNCHANGED <<args, loaded, tape, tape_len, ptr, ip, input_pos,
                   output, steps, reads>>

Next ==
    \/ Scan
    \/ Start
    \/ Timeout
    \/ MoveRight
    \/ MoveLeft
    \/ Increment
    \/ Decrement
    \/ Write
    \/ Read
    \/ LoopOpen
    \/ LoopClose
    \/ Halt

-----------------------------------------------------------------------------
(* bf_codegen.BF: the emitter.  A BF object is a record of the emitted     *)
(* characters (the chunks of self.code, joined) and the cursor self.pos;   *)
(* each method is an operator from the object to the object after the call.*)
(* The field at keeps, for each emitted character, the cell the emitter    *)
(* takes the pointer to be on when that instruction runs: {self.pos} for a *)
(* character appended by an operation on its target cell, {} for the       *)
(* pointer moves of _goto and for the inside of the hand-written loop.     *)

Rep(c, n) == [i \in 1..n |-> c]

NewBF == [code |-> <<>>, pos |-> 0, at |-> <<>>]

\* self.code.append(s)
Emit(bf, s) ==
    [bf EXCEPT !.code = @ \o s, !.at = @ \o Rep({bf.pos}, Len(s))]

\* self.code.append(s) for a hand-written loop s: the emitter takes the
\* pointer to be on self.pos where the loop opens and where it closes
EmitLoop(bf, s) ==
    [bf EXCEPT !.code = @ \o s,
               !.at = @ \o [i \in 1..Len(s) |->
                                IF i \in {1, Len(s)} THEN {bf.pos} ELSE {}]]

\* r, with the object b of an earlier call evaluated first.  The calls of a
\* method body are chained, each on the object the one before returns; in a
\* long body this fixes the order in which the chain is evaluated.
After(b, r) == IF b.pos >= 0 THEN r ELSE r

goto(bf, cell) ==
    LET diff == cell - bf.pos
    IN [code |-> bf.code \o (IF diff > 0 THEN Rep(">", diff)
                             ELSE IF diff < 0 THEN Rep("<", 0 - diff)
                             ELSE <<>>),
        pos |-> cell,
        at |-> bf.at \o Rep({}, IF diff > 0 THEN diff ELSE 0 - diff)]

\* inc ignoring its count (line 31 without the "* n")
inc_once(bf, cell, n) == Emit(goto(bf, cell), <<"+">>)

inc(bf, cell, n) == Emit(goto(bf, cell), Rep("+", n))

\* dec ignoring its count (line 35 without the "* n")
dec_once(bf, cell, n) == Emit(goto(bf, cell), <<"-">>)

dec(bf, cell, n) == Emit(goto(bf, cell), Rep("-", n))

\* clear moving to the cell without emitting the "[-]" (line 39 left out)
clear_skip(bf, cell) == goto(bf, cell)

clear(bf, cell) == Emit(goto(bf, cell), <<"[", "-", "]">>)

read(bf, cell) == Emit(goto(bf, cell), <<",">>)


write(bf, cell) == Emit(goto(bf, cell), <<".">>)

\* loop_open without the move to its cell (line 50 left out)
loop_open_nogoto(bf, cell) == Emit(bf, <<"[">>)

loop_open(bf, cell) == Emit(goto(bf, cell), <<"[">>)

\* loop_close setting the cursor without emitting the moves of _goto
loop_close_nogoto(bf, cell) == Emit([bf EXCEPT !.pos = cell], <<"]">>)

loop_close(bf, cell) == Emit(goto(bf, cell), <<"]">>)

\* move adding two to dst for each unit of src (line 62 with "++")
move_twice(bf, src, dst) ==
    LET b1 == Emit(goto(bf, src), <<"[", "-">>)
        b2 == Emit(goto(b1, dst), <<"+", "+">>)
    IN Emit(goto(b2, src), <<"]">>)

move(bf, src, dst) ==
    LET b1 == Emit(goto(bf, src), <<"[", "-">>)
        b2 == Emit(goto(b1, dst), <<"+">>)
    IN Emit(goto(b2, src), <<"]">>)

copy(bf, src, dst, tmp) ==
    LET b1 == Emit(goto(bf, src), <<"[", "-">>)
        b2 == Emit(goto(b1, dst), <<"+">>)
        b3 == Emit(goto(b2, tmp), <<"+">>)
        b4 == Emit(goto(b3, src), <<"]">>)
    IN move(b4, tmp, src)

\* multiply without the restore of b from tmp (line 90 left out)
multiply_norestore(bf, a, b, result, tmp) ==
    LET b1 == Emit(goto(bf, a), <<"[", "-">>)
        b2 == Emit(goto(b1, b), <<"[", "-">>)
        b3 == Emit(goto(b2, result), <<"+">>)
        b4 == Emit(goto(b3, tmp), <<"+">>)
        b5 == Emit(goto(b4, b), <<"]">>)
    IN Emit(goto(b5, a), <<"]">>)

multiply(bf, a, b, result, tmp) ==
    LET b1 == Emit(goto(bf, a), <<"[", "-">>)
        b2 == Emit(goto(b1, b), <<"[", "-">>)
        b3 == Emit(goto(b2, result), <<"+">>)
        b4 == Emit(goto(b3, tmp), <<"+">>)
        b5 == Emit(goto(b4, b), <<"]">>)
        b6 == move(b5, tmp, b)
    IN Emit(goto(b6, a), <<"]">>)

\* The loop of line 111 with a detour of two cells to the right before it
\* returns: [->-[>+>>]>[+[-<+>]>+>>]>><<<<<<<]
DivmodLoop_far ==
    <<"[", "-", ">", "-", "[", ">", "+", ">", ">", "]", ">",
      "[", "+", "[", "-", "<", "+", ">", "]", ">", "+", ">", ">", "]",
      ">", ">", "<", "<", "<", "<", "<", "<", "<", "]">>

\* The loop of line 111 without the increment of the quotient:
\* [->-[>+>>]>[+[-<+>]>>>]<<<<<]
DivmodLoop_noquotient ==
    <<"[", "-", ">", "-", "[", ">", "+", ">", ">", "]", ">",
      "[", "+", "[", "-", "<", "+", ">", "]", ">", ">", ">", "]",
      "<", "<", "<", "<", "<", "]">>

\* The hand-written loop of line 111: [->-[>+>>]>[+[-<+>]>+>>]<<<<<]
DivmodLoop ==
    <<"[", "-", ">", "-", "[", ">", "+", ">", ">", "]", ">",
      "[", "+", "[", "-", "<", "+", ">", "]", ">", "+", ">", ">", "]",
      "<", "<", "<", "<", "<", "]">>

\* divmod_10 taking the loop to exit at base+2 instead of base+1 (line 112)
divmod_10_exit(bf, base) ==
    LET b1 == inc(bf, base + 2, 10)
        b2 == Emit(goto(b1, base), <<">">>)
        b3 == [b2 EXCEPT !.pos = base + 1]
        b4 == EmitLoop(b3, DivmodLoop)
        b5 == [b4 EXCEPT !.pos = base + 2]
    IN clear(b5, base + 2)

\* divmod_10 without the cleanup of base+2 (line 114 left out)
divmod_10_nocleanup(bf, base) ==
    LET b1 == inc(bf, base + 2, 10)
        b2 == Emit(goto(b1, base), <<">">>)
        b3 == [b2 EXCEPT !.pos = base + 1]
        b4 == EmitLoop(b3, DivmodLoop)
    IN [b4 EXCEPT !.pos = base + 1]

divmod_10(bf, base) ==
    LET b1 == inc(bf, base + 2, 10)
        b2 == Emit(goto(b1, base), <<">">>)
        b3 == [b2 EXCEPT !.pos = base + 1]
        b4 == EmitLoop(b3, DivmodLoop)
        b5 == [b4 EXCEPT !.pos = base + 1]
    IN clear(b5, base + 2)

\* one method call on the object bf: the name of the method and its arguments
Call(bf, c) ==
    CASE c[1] = "inc" -> inc(bf, c[2], c[3])
      [] c[1] = "dec" -> dec(bf, c[2], c[3])
      [] c[1] = "clear" -> clear(bf, c[2])
      [] c[1] = "read" -> read(bf, c[2])
      [] c[1] = "write" -> write(bf, c[2])
      [] c[1] = "loop_open" -> loop_open(bf, c[2])
      [] c[1] = "loop_close" -> loop_close(bf, c[2])
      [] c[1] = "move" -> move(bf, c[2], c[3])
      [] c[1] = "multiply" -> multiply(bf, c[2], c[3], c[4], c[5])
      [] c[1] = "divmod_10" -> divmod_10(bf, c[2])

\* the calls cs[i], cs[i+1], ... of a method body, one after the other, each
\* on the object the one before leaves
RECURSIVE Calls(_, _, _)
Calls(bf, cs, i) ==
    IF i > Len(cs) THEN bf
    ELSE LET b == Call(bf, cs[i])
         IN After(b, Calls(b, cs, i + 1))

print_number(bf, val_cell, ws) ==
    Calls(bf,
       << \* lines 126-147: the two divisions and the flags
          <<"move", val_cell, ws + 1>>,
          <<"divmod_10", ws>>,
          <<"move", ws + 4, ws + 7>>,
          <<"divmod_10", ws + 6>>,
          <<"inc", ws + 12, 1>>,
          <<"inc", ws + 13, 1>>,
          \* Branch 1: hundreds > 0
          <<"loop_open", ws + 10>>,
          <<"dec", ws + 12, 1>>,
          <<"dec", ws + 13, 1>>,
          <<"inc", ws + 10, 48>>,
          <<"write", ws + 10>>,
          <<"clear", ws + 10>>,
          <<"inc", ws + 9, 48>>,
          <<"write", ws + 9>>,
          <<"clear", ws + 9>>,
          <<"inc", ws + 3, 48>>,
          <<"write", ws + 3>>,
          <<"clear", ws + 3>>,
          <<"loop_close", ws + 10>>,
          \* Branch 2: hundreds == 0
          <<"loop_open", ws + 12>>,
          <<"dec", ws + 12, 1>>,
          \* Sub-branch 2a: tens > 0
          <<"loop_open", ws + 9>>,
          <<"dec", ws + 13, 1>>,
          <<"inc", ws + 9, 48>>,
          <<"write", ws + 9>>,
          <<"clear", ws + 9>>,
          <<"inc", ws + 3, 48>>,
          <<"write", ws + 3>>,
          <<"clear", ws + 3>>,
          <<"loop_close", ws + 9>>,
          \* Sub-branch 2b: tens == 0
          <<"loop_open", ws + 13>>,
          <<"dec", ws + 13, 1>>,
          <<"inc", ws + 3, 48>>,
          <<"write", ws + 3>>,
          <<"clear", ws + 3>>,
          <<"loop_close", ws + 13>>,
          <<"loop_close", ws + 12>> >>, 1)

\* BF.output: join the chunks and keep the instruction characters.
bf_output(bf) == SelectSeq(bf.code, IsBF)

\* the entries of at for the characters that BF.output keeps
bf_cursor(bf) ==
    LET kept == SelectSeq([i \in 1..Len(bf.code) |-> i], LAMBDA i : IsBF(bf.code[i]))
    IN [k \in 1..Len(kept) |-> bf.at[kept[k]]]

-----------------------------------------------------------------------------
(* bf_codegen.generate: the derivative calculator.                         *)

\* lines 216-273: up to the call of print_number
generate_head ==
    << \* Phase 0: read and discard the constant term, classify the separator
       <<"read", 0>>,
       <<"clear", 0>>,
       <<"read", 0>>,
       <<"dec", 0, 32>>,
       <<"inc", 1, 1>>,
       <<"loop_open", 0>>,
       <<"dec", 1, 1>>,
       <<"clear", 0>>,
       <<"loop_close", 0>>,
       <<"inc", 6, 1>>,
       <<"loop_open", 1>>,
       <<"dec", 6, 1>>,
       <<"dec", 1, 1>>,
       <<"inc", 0, 1>>,
       <<"loop_close", 1>>,
       \* constant polynomial: output "0\n"
       <<"loop_open", 6>>,
       <<"dec", 6, 1>>,
       <<"inc", 1, 48>>,
       <<"write", 1>>,
       <<"clear", 1>>,
       <<"inc", 1, 10>>,
       <<"write", 1>>,
       <<"clear", 1>>,
       <<"loop_close", 6>>,
       \* Phase 1: main derivative loop
       <<"inc", 3, 1>>,
       <<"loop_open", 0>>,
       <<"dec", 0, 1>>,
       <<"read", 2>>,
       <<"dec", 2, 48>>,
       <<"multiply", 2, 3, 4, 5>> >>

\* lines 279-308: after the call of print_number
generate_tail ==
    << <<"inc", 3, 1>>,
       <<"read", 1>>,
       <<"dec", 1, 32>>,
       <<"inc", 6, 1>>,
       \* not a space: print the newline and stop
       <<"loop_open", 1>>,
       <<"dec", 6, 1>>,
       <<"clear", 1>>,
       <<"inc", 1, 10>>,
       <<"write", 1>>,
       <<"clear", 1>>,
       <<"loop_close", 1>>,
       \* a space: set the loop flag, print the space
       <<"loop_open", 6>>,
       <<"dec", 6, 1>>,
       <<"inc", 0, 1>>,
       <<"inc", 1, 32>>,
       <<"write", 1>>,
       <<"clear", 1>>,
       <<"loop_close", 6>>,
       <<"loop_close", 0>> >>

\* the object bf of generate after line 308
generate_bf ==
    Calls(print_number(Calls(NewBF, generate_head, 1), 4, 7), generate_tail, 1)

generate == bf_output(generate_bf)

-----------------------------------------------------------------------------
(* Specification Spec: run_bf on every short program text and on a few     *)
(* longer ones, with short inputs, several cell sizes and small budgets.   *)

MaxProgLen == 2

MaxBudget == 7

Alphabet == BFChars \cup {CommentChar}

SeqsUpTo(S, n) == UNION {[1..k -> S] : k \in 0..n}

LongerPrograms ==
    { <<"+", "[", "-", "]">>,
      <<"+", "[", "]">>,
      <<"[", "[", "]">>,
      <<"[", "]", "]">>,
      <<"+", ".", "<", ".">>,
      <<",", ".", ",", ".">>,
      <<",", "[", ".", ",", "]">>,
      <<"+", "[", "[", "-", "]", "]", ".">>,
      <<"+", "[", "[", "-", "]", "[", "]", "]">>,
      <<"+", ".", "x", "[", "+">>,
      <<",", ".", "]", "+", "[", "]">>,
      <<">", "+", "<", "<", "+", ".">>,
      <<"-", ">", ",", "<", ".">>,
      <<"+", ">", ",", ">", "-", "<", ",">> }

Programs == SeqsUpTo(Alphabet, MaxProgLen) \cup LongerPrograms

Inputs == { <<>>, <<5>>, <<255, 1>> }

CellSizes == {1, 3, 256}

\* A program that walks right for ever, leaving zeros behind: it reaches the
\* end of the tape after about 4 * TapeInitLen steps.
GrowProgram == <<",", ".", ">", "<", "+", "[", "-", ">", "+", "]">>

GrowBudget == 120100

Init ==
    /\ \/ /\ ops \in {Strip(code) : code \in Programs}
          /\ input_bytes \in {Latin1(s) : s \in Inputs}
          /\ cell_size \in CellSizes
          /\ max_steps \in 0..MaxBudget
       \/ /\ ops = Strip(GrowProgram)
          /\ input_bytes = <<5>>
          /\ cell_size = DefaultCellSize
          /\ max_steps = GrowBudget
    /\ Fresh

Spec == Init /\ [][Next]_vars

-----------------------------------------------------------------------------
(* Specification SpecGen: run_bf on the generated program, with the        *)
(* coefficient lists of the input protocol as inputs.                      *)

ShortBudget == 40

MaxCoeffs == 3

Digits == {0, 1, 4, 9}

Space == 32

Newline == 10

Zero == 48

\* The text of a coefficient list: digits separated by single spaces.
RECURSIVE Joined(_)
Joined(cs) ==
    IF Len(cs) = 0 THEN <<>>
    ELSE IF Len(cs) = 1 THEN <<Zero + cs[1]>>
    ELSE <<Zero + cs[1], Space>> \o Joined(Tail(cs))

WellFormed(cs) == Joined(cs) \o <<Newline>>

CoeffLists == UNION {[1..k -> Digits] : k \in 1..MaxCoeffs}

\* test.py lines 71-77: 28 zeros, then 9
ThreeDigitCase == [i \in 1..29 |-> IF i = 29 THEN 9 ELSE 0]

\* every number of digits in the products, multipliers up to 12
MixedCase == <<1, 2, 3, 4, 5, 6, 7, 8, 9, 9, 8, 7, 9>>

\* a constant line followed by further text
TrailingCase == WellFormed(<<9>>) \o WellFormed(<<1, 4>>)

GenInputs ==
    {WellFormed(cs) : cs \in CoeffLists \cup {ThreeDigitCase, MixedCase}}
        \cup {Joined(cs) : cs \in [1..1 -> Digits]}
        \cup {TrailingCase}

InitGen ==
    /\ ops = Strip(generate)
    /\ cell_size = DefaultCellSize
    /\ \/ /\ input_bytes \in {Latin1(s) : s \in GenInputs}
          /\ max_steps = DefaultMaxSteps
       \/ /\ input_bytes = Latin1(WellFormed(<<7>>))
          /\ max_steps = ShortBudget
    /\ Fresh

SpecGen == InitGen /\ [][Next]_vars

-----------------------------------------------------------------------------
(* Specification SpecPrint: run_bf on the program that reads one byte into *)
(* val_cell and prints it with print_number(val_cell, ws), for every byte. *)

PrintLayouts == { [val_cell |-> 4, ws |-> 7], [val_cell |-> 0, ws |-> 1] }

PrintProgram(l) == bf_output(print_number(read(NewBF, l.val_cell), l.val_cell, l.ws))

\* the program of each layout, emitted once
PrintPrograms == [l \in PrintLayouts |-> PrintProgram(l)]

Bytes == 0..(DefaultCellSize - 1)

\* the layout of generate (line 276), and the values at which the number of
\* digits changes, for the other layout
GenLayout == [val_cell |-> 4, ws |-> 7]

EdgeValues == {0, 1, 9, 10, 11, 99, 100, 101, 199, 200, 255}

InitPrint ==
    /\ \E l \in PrintLayouts :
          /\ ops = Strip(PrintPrograms[l])
          /\ \/ /\ input_bytes \in {<<v>> : v \in IF l = GenLayout THEN Bytes ELSE EdgeValues}
                /\ max_steps = DefaultMaxSteps
             \/ /\ input_bytes = <<Zero>>
                /\ max_steps = ShortBudget
    /\ cell_size = DefaultCellSize
    /\ Fresh

SpecPrint == InitPrint /\ [][Next]_vars

-----------------------------------------------------------------------------
(* Specification SpecDiv: run_bf on the program that reads one byte into   *)
(* cell base+6 and one into cell base+1, writes the dividend back, and     *)
(* then divides with divmod_10(base).                                      *)

DivBases == {0, 7}

DivPrelude(base) == write(read(read(NewBF, base + 6), base + 1), base + 1)

DivProgram(base) == bf_output(divmod_10(DivPrelude(base), base))

\* the program of each base, emitted once
DivPrograms == [b \in DivBases |-> DivProgram(b)]

\* the number of instructions before the code of divmod_10
DivStarts == [b \in DivBases |-> Len(bf_output(DivPrelude(b)))]

\* values of cell base+6 other than zero
Outside == {1, 2, 255}

InitDiv ==
    /\ \E b \in DivBases :
          /\ ops = Strip(DivPrograms[b])
          /\ \/ /\ input_bytes \in {<<0, n>> : n \in IF b = 0 THEN Bytes ELSE EdgeValues}
                        \cup {<<z, n>> : z \in Outside, n \in EdgeValues}
                /\ max_steps = DefaultMaxSteps
             \/ /\ input_bytes = <<0, Zero>>
                /\ max_steps = ShortBudget
    /\ cell_size = DefaultCellSize
    /\ Fresh

SpecDiv == InitDiv /\ [][Next]_vars

-----------------------------------------------------------------------------
(* Specification SpecMul: run_bf on the program that reads three bytes     *)
(* into cells a, b and a cell outside the macro, writes b back, and then   *)
(* multiplies with multiply(a, b, result, tmp).                            *)

\* the layout of generate (line 273), with cell 6 outside
GenMulLayout == [a |-> 2, b |-> 3, result |-> 4, tmp |-> 5, other |-> 6]

MulLayouts ==
    { GenMulLayout, [a |-> 3, b |-> 0, result |-> 1, tmp |-> 2, other |-> 4] }

MulPrelude(l) == write(read(read(read(NewBF, l.other), l.a), l.b), l.b)

MulProgram(l) == bf_output(multiply(MulPrelude(l), l.a, l.b, l.result, l.tmp))

\* the program of each layout, emitted once
MulPrograms == [l \in MulLayouts |-> MulProgram(l)]

MaxFactor == 6

\* factors whose product passes 255, or that are the largest of a cell
WrapPairs ==
    { <<16, 16>>, <<17, 16>>, <<255, 2>>, <<2, 255>>, <<100, 3>>, <<9, 29>>, <<255, 0>>, <<0, 255>> }

\* the byte read into the cell outside the macro
Sentinel == 77

MulInputs ==
    {<<Sentinel, x, y>> : x \in 0..MaxFactor, y \in 0..MaxFactor}
        \cup {<<Sentinel, p[1], p[2]>> : p \in WrapPairs}

InitMul ==
    /\ \E l \in MulLayouts :
          /\ ops = Strip(MulPrograms[l])
          /\ \/ /\ input_bytes \in MulInputs \cup (IF l = GenMulLayout THEN {<<Sentinel, 255, 255>>} ELSE {})
                /\ max_steps = DefaultMaxSteps
             \/ /\ input_bytes = <<Sentinel, 9, 9>>
                /\ max_steps = ShortBudget
    /\ cell_size = DefaultCellSize
    /\ Fresh

SpecMul == InitMul /\ [][Next]_vars

-----------------------------------------------------------------------------
(* Specification SpecAny: run_bf on the generated program, with arbitrary  *)
(* byte sequences as inputs, well-formed or not.                           *)

MaxBytes == 3

\* the text of 258 coefficients 0: the main loop runs 257 times, and the
\* multiplier of cell 3 passes 255
ManyZeros ==
    [i \in 1..516 |-> IF i = 516 THEN Newline ELSE IF i % 2 = 1 THEN Zero ELSE Space]

\* a newline, a space and a digit
ByteAlphabet == {Newline, Space, Zero + 9}

\* inputs with bytes that are neither digits nor separators, inputs that
\* end inside the protocol, and well-formed inputs of several coefficients
LongerInputs ==
    { <<255>>,
      <<0, 0>>,
      <<255, Space, 255, Space>>,
      <<Zero, Space, 0, Space, 200, Newline>>,
      <<Zero + 1, Space, Zero + 2, Space>>,
      WellFormed(<<1, 4, 9>>),
      WellFormed(MixedCase),
      ManyZeros }

AnyInputs == SeqsUpTo(ByteAlphabet, MaxBytes) \cup LongerInputs

InitAny ==
    /\ ops = Strip(generate)
    /\ cell_size = DefaultCellSize
    /\ \/ /\ input_bytes \in {Latin1(s) : s \in AnyInputs}
          /\ max_steps = DefaultMaxSteps
       \/ /\ input_bytes = Latin1(<<Space, Space>>)
          /\ max_steps = ShortBudget
    /\ Fresh

SpecAny == InitAny /\ [][Next]_vars

-----------------------------------------------------------------------------
(* Specification SpecHalt: as SpecAny, with fewer inputs and with the      *)
(* interpreter kept running: a call of run_bf that can take a step takes   *)
(* it.                                                                     *)

MaxHaltBytes == 2

HaltInputs ==
    SeqsUpTo(ByteAlphabet, MaxHaltBytes)
        \cup { <<255>>,
               <<0, 0>>,
               <<Zero + 1, Space, Zero + 2, Space>>,
               WellFormed(<<1, 4, 9>>) }

InitHalt ==
    /\ ops = Strip(generate)
    /\ cell_size = DefaultCellSize
    /\ \/ /\ input_bytes \in {Latin1(s) : s \in HaltInputs}
          /\ max_steps = DefaultMaxSteps
       \/ /\ input_bytes = Latin1(<<Space, Space>>)
          /\ max_steps = ShortBudget
    /\ Fresh

SpecHalt == InitHalt /\ [][Next]_vars /\ WF_vars(Next)

-----------------------------------------------------------------------------
(* Specification SpecWrap: run_bf on the generated program, with           *)
(* well-formed inputs in which a product ci*i passes 255.                  *)

\* 30 coefficients: c1 = c2 = 1 and c29 = 9, so that 9 * 29 = 261
WrapCase == [i \in 1..30 |-> IF i \in {2, 3} THEN 1 ELSE IF i = 30 THEN 9 ELSE 0]

\* 31 coefficients: c29 = c30 = 9, so that 9 * 29 = 261 and 9 * 30 = 270
WrapTwiceCase == [i \in 1..31 |-> IF i \in {2, 3} THEN 1 ELSE IF i >= 30 THEN 9 ELSE 0]

WrapInputs == {WellFormed(WrapCase), WellFormed(WrapTwiceCase)}

InitWrap ==
    /\ ops = Strip(generate)
    /\ cell_size = DefaultCellSize
    /\ \/ /\ input_bytes \in {Latin1(s) : s \in WrapInputs}
          /\ max_steps = DefaultMaxSteps
       \/ /\ input_bytes = Latin1(WellFormed(WrapCase))
          /\ max_steps = ShortBudget
    /\ Fresh

SpecWrap == InitWrap /\ [][Next]_vars

-----------------------------------------------------------------------------
(* What the claims are stated with.                                        *)

Done == phase = "done"

Raised == phase = "raised"

Returned(text) == ret = [kind |-> "return", value |-> text]

\* The run has ended or can take a step: with steps growing at every
\* instruction and bounded by max_steps, every run then ends.
Progresses == Done \/ Raised \/ ENABLED Next

\* The canonical decimal representation of v in 0..999, as character codes.
Decimal(v) ==
    IF v < 10 THEN <<Zero + v>>
    ELSE IF v < 100 THEN <<Zero + (v \div 10), Zero + (v % 10)>>
    ELSE <<Zero + (v \div 100), Zero + ((v \div 10) % 10), Zero + (v % 10)>>

IsDigit(b) == b \in Zero..(Zero + 9)

\* The input protocol: digits separated by single spaces, then a newline.
IsWellFormed(inp) ==
    /\ Len(inp) >= 2
    /\ Len(inp) % 2 = 0
    /\ inp[Len(inp)] = Newline
    /\ \A i \in 1..Len(inp) :
          /\ i % 2 = 1 => IsDigit(inp[i])
          /\ (i % 2 = 0 /\ i < Len(inp)) => inp[i] = Space

\* The coefficients c0..ck of a well-formed input, as cs[1]..cs[k+1].
Coeffs(inp) == [i \in 1..(Len(inp) \div 2) |-> inp[2 * i - 1] - Zero]

\* The decimal representations of vs[1..n], separated by single spaces.
RECURSIVE SpacedDecimals(_, _)
SpacedDecimals(vs, n) ==
    IF n = 0 THEN <<>>
    ELSE IF n = 1 THEN Decimal(vs[1])
    ELSE SpacedDecimals(vs, n - 1) \o <<Space>> \o Decimal(vs[n])

\* c1*1, c2*2, ..., ck*k
Products(cs) == [i \in 1..(Len(cs) - 1) |-> cs[i + 1] * i]

DerivativeLine(cs) ==
    SpacedDecimals(Products(cs), Len(cs) - 1) \o <<Newline>>

ZeroLine == <<Zero, Newline>>

IsPrefix(a, b) == Len(a) <= Len(b) /\ a = SubSeq(b, 1, Len(a))

DefaultRun == cell_size = DefaultCellSize /\ max_steps = DefaultMaxSteps

\* C1: on a well-formed input c0..ck, k >= 1, whose products ci*i are all at
\* most 255, the generated program never fails, runs to its end, and returns
\* exactly the decimal products c1*1 .. ck*k, separated by single spaces and
\* followed by one newline; what it has written so far is always a prefix of
\* that line.
C1_Derivative ==
    (/\ ops = generate
     /\ DefaultRun
     /\ IsWellFormed(input_bytes)
     /\ Len(Coeffs(input_bytes)) >= 2
     /\ \A i \in 1..(Len(Coeffs(input_bytes)) - 1) :
            Products(Coeffs(input_bytes))[i] <= 255)
    => /\ ~Raised
       /\ Progresses
       /\ IsPrefix(output, DerivativeLine(Coeffs(input_bytes)))
       /\ Done => /\ output = DerivativeLine(Coeffs(input_bytes))
                  /\ Returned(output)

C1_Witness ==
    /\ Done
    /\ ops = generate
    /\ DefaultRun
    /\ input_bytes = WellFormed(<<1, 4, 9>>)
    /\ Returned(<<Zero + 4, Space, Zero + 1, Zero + 8, Newline>>)

IsBareConstant(inp) ==
    /\ Len(inp) >= 1
    /\ IsDigit(inp[1])
    /\ Len(inp) >= 2 => inp[2] # Space

\* The main loop is the loop closed by the last instruction (line 308).
InMainLoop ==
    LET close == Len(ops) - 1
    IN ip > brackets[close] /\ ip <= close

\* C2: on an input whose second byte is not a space (a digit followed by a
\* newline or by the end of the input), the generated program never fails,
\* runs to its end and returns "0\n", having executed exactly two Read
\* instructions; it never enters the main loop and the input cursor never
\* exceeds 2.
C2_BareConstant ==
    (/\ ops = generate
     /\ DefaultRun
     /\ IsBareConstant(input_bytes))
    => /\ ~Raised
       /\ Progresses
       /\ reads <= 2
       /\ input_pos <= 2
       /\ IsPrefix(output, ZeroLine)
       /\ phase = "run" => ~InMainLoop
       /\ Done => /\ output = ZeroLine
                  /\ Returned(ZeroLine)
                  /\ reads = 2

C2_Witness ==
    /\ Done
    /\ ops = generate
    /\ DefaultRun
    /\ input_bytes = TrailingCase
    /\ input_pos = 2
    /\ reads = 2
    /\ Returned(ZeroLine)

IsZeroPolynomial(inp) ==
    /\ IsWellFormed(inp)
    /\ \A i \in 1..Len(Coeffs(inp)) : Coeffs(inp)[i] = 0

\* k zeros separated by single spaces, then a newline
ZerosLine(k) == SpacedDecimals([i \in 1..k |-> 0], k) \o <<Newline>>

\* C3 as stated: on every zero polynomial and on every bare constant the
\* generated program returns exactly "0\n".
C3_Original ==
    (/\ ops = generate
     /\ DefaultRun
     /\ IsZeroPolynomial(input_bytes) \/ IsBareConstant(input_bytes))
    => (Done => output = ZeroLine)

\* C3, amended: on a bare constant the generated program returns "0\n"; on a
\* zero polynomial of k+1 coefficients, k >= 1, it returns k zeros separated
\* by single spaces and followed by one newline (one zero per coefficient of
\* the derivative).
C3_ZeroPolynomial ==
    (/\ ops = generate
     /\ DefaultRun
     /\ IsZeroPolynomial(input_bytes) \/ IsBareConstant(input_bytes))
    => /\ ~Raised
       /\ Progresses
       /\ Done => /\ output = IF IsBareConstant(input_bytes) THEN ZeroLine
                              ELSE ZerosLine(Len(Coeffs(input_bytes)) - 1)
                  /\ Returned(output)

C3_Witness ==
    /\ Done
    /\ ops = generate
    /\ DefaultRun
    /\ input_bytes = WellFormed(<<0, 0, 0>>)
    /\ Returned(<<Zero, Space, Zero, Newline>>)

\* C4: for every value v in 0..255 read into val_cell, with the workspace
\* zero, the code of print_number(val_cell, ws) never fails, runs to its end
\* and writes exactly the canonical decimal representation of v: one
\* character below 10, two below 100, three from 100 on, the first of them
\* '0' only for v = 0.
C4_PrintNumber ==
    (/\ \E l \in PrintLayouts : ops = PrintPrograms[l]
     /\ DefaultRun
     /\ Len(input_bytes) = 1)
    => LET v == input_bytes[1]
       IN /\ ~Raised
          /\ Progresses
          /\ IsPrefix(output, Decimal(v))
          /\ Done => /\ output = Decimal(v)
                     /\ Returned(output)
                     /\ Len(output) = IF v < 10 THEN 1 ELSE IF v < 100 THEN 2 ELSE 3
                     /\ output[1] = Zero <=> v = 0

C4_Witness ==
    /\ Done
    /\ ops = PrintPrograms[GenLayout]
    /\ DefaultRun
    /\ input_bytes = <<100>>
    /\ Returned(<<Zero + 1, Zero, Zero>>)

-----------------------------------------------------------------------------
(* The interpreter's claims, under Spec.                                   *)

\* the number of c among the first n instructions of o
Count(o, c, n) == Cardinality({i \in 1..n : o[i] = c})

\* Balanced brackets: no prefix closes more than it opens, and the whole
\* stream closes all it opens.
Balanced(o) ==
    /\ \A n \in 1..Len(o) : Count(o, "]", n) <= Count(o, "[", n)
    /\ Count(o, "]", Len(o)) = Count(o, "[", Len(o))

StructuralError ==
    /\ Raised
    /\ ret.kind = "RuntimeError"
    /\ ret.what \in {"unmatched_close", "unmatched_open"}

TimedOut == Raised /\ ret.what = "timeout"

BoundsFailed == Raised /\ ret.what = "bounds"

\* C5: a stream with unbalanced brackets never reaches the execution phase:
\* its load ends in a structural error, and in every state of the run no
\* instruction has been executed, no input consumed, no output produced, and
\* the step counter is 0.
C5_Structural ==
    ~Balanced(ops)
    => /\ phase \in {"load", "raised"}
       /\ Progresses
       /\ Raised => StructuralError
       /\ steps = 0
       /\ reads = 0
       /\ input_pos = 0
       /\ output = <<>>
       /\ ip = 0
       /\ ptr = 0
       /\ tape = EmptyTape

C5_Witness ==
    /\ StructuralError
    /\ ret.what = "unmatched_open"
    /\ ops = <<"+", ".", "[", "+">>
    /\ steps = 0
    /\ output = <<>>

\* C6: while the program runs at most max_steps instructions have been
\* executed; a run that reaches the end of the program returns its output; a
\* run that has executed max_steps instructions and has not reached the end
\* fails with the timeout error, which carries exactly the output written so
\* far; and no run fails with that error earlier.
C6_Budget ==
    /\ [](phase = "run" => steps <= max_steps)
    /\ [](TimedOut => /\ steps = max_steps + 1
                      /\ ip < Len(ops)
                      /\ ret = [kind |-> "RuntimeError", what |-> "timeout",
                                max |-> max_steps, output |-> output])
    /\ [](Done => /\ steps <= max_steps
                  /\ ip >= Len(ops)
                  /\ Returned(output))
    /\ [][phase = "run" =>
            IF ip >= Len(ops) THEN Done'
            ELSE IF steps = max_steps THEN TimedOut' /\ output' = output
            ELSE steps' = steps + 1 /\ ~TimedOut']_vars

C6_Witness ==
    /\ TimedOut
    /\ max_steps > 0
    /\ steps = max_steps + 1
    /\ output # <<>>
    /\ ret.output = output

\* C7 as stated: every tape cell holds a value in [0, cell_size).
C7_CellRange == \A i \in DOMAIN tape : tape[i] \in 0..(cell_size - 1)

\* C8: MoveLeft at data pointer 0 ends the run with the bounds error, which
\* carries no output; a run that has failed takes no further step; whenever
\* the program runs the data pointer is within the tape; the tape length
\* never decreases, and it grows only by zero cells, when MoveRight reaches
\* its end.
C8_Bounds ==
    /\ [][(/\ phase = "run"
           /\ ip < Len(ops)
           /\ steps < max_steps
           /\ ops[ip + 1] = "<"
           /\ ptr = 0)
          => /\ Raised'
             /\ ret' = [kind |-> "RuntimeError", what |-> "bounds",
                        step |-> steps + 1]
             /\ output' = output]_vars
    /\ [](Raised => ~ENABLED Next)
    /\ [](phase = "run" => ptr \in 0..(tape_len - 1))
    /\ [][/\ tape_len' >= tape_len
          /\ tape_len' > tape_len
             => /\ ops[ip + 1] = ">"
                /\ ptr' = tape_len
                /\ tape' = tape
                /\ \A i \in DOMAIN tape : i < tape_len]_vars

C8_Witness ==
    /\ BoundsFailed
    /\ ptr = 0 - 1
    /\ output # <<>>
    /\ ret = [kind |-> "RuntimeError", what |-> "bounds", step |-> steps]

\* C9: a Read with input left stores the next input byte in the current cell
\* and advances the input cursor by one; a Read at the end of the input
\* stores 0 and leaves the cursor; in both cases the run goes on with the
\* next instruction and the data pointer, the output, the tape length and
\* every other cell are unchanged.  The input cursor never exceeds the input
\* length.
C9_Read ==
    /\ [](input_pos <= Len(input_bytes))
    /\ [][(/\ phase = "run"
           /\ ip < Len(ops)
           /\ steps < max_steps
           /\ ops[ip + 1] = ",")
          => /\ IF input_pos < Len(input_bytes)
                THEN /\ Cell(tape', ptr) = input_bytes[input_pos + 1]
                     /\ input_pos' = input_pos + 1
                ELSE /\ Cell(tape', ptr) = 0
                     /\ input_pos' = input_pos
             /\ phase' = "run"
             /\ ip' = ip + 1
             /\ ptr' = ptr
             /\ output' = output
             /\ tape_len' = tape_len
             /\ \A i \in ((DOMAIN tape) \cup (DOMAIN tape')) \ {ptr} :
                    Cell(tape', i) = Cell(tape, i)]_vars

C9_Witness ==
    /\ Done
    /\ ops = <<",", ".", ",", ".">>
    /\ input_bytes = <<5>>
    /\ input_pos = 1
    /\ output = <<5, 0>>

-----------------------------------------------------------------------------
(* The emitter's macros, each run on its own.                              *)

\* the base of the program of SpecDiv that is running
DivBase == CHOOSE b \in DivBases : ops = DivPrograms[b]

\* the six cells divmod_10(base) documents as its window
DivWindow(base) == base..(base + 5)

C12_Window ==
    (/\ \E b \in DivBases : ops = DivPrograms[b]
     /\ DefaultRun)
    => LET n == input_bytes[2]
           base == DivBase
       IN /\ (phase = "run" /\ ip >= DivStarts[base]) => ptr \in DivWindow(base)
          /\ Done => /\ Cell(tape, base + 3) = n % 10
                     /\ Cell(tape, base + 4) = n \div 10
                     /\ \A i \in {base, base + 1, base + 2, base + 5} : Cell(tape, i) = 0
                     /\ Cell(tape, base + 6) = input_bytes[1]

\* the layout of the program of SpecMul that is running
MulLayout == CHOOSE l \in MulLayouts : ops = MulPrograms[l]

\* C13: for all x in cell a and y in cell b, with result and tmp zero and
\* the four cells distinct, the code of multiply(a, b, result, tmp) never
\* fails and runs to its end, and then result holds (x*y) mod 256, a holds
\* 0, b holds y, tmp holds 0 and every other cell holds what it held
\* before: the byte read into the cell outside, zero elsewhere.
C13_Multiply ==
    (/\ \E l \in MulLayouts : ops = MulPrograms[l]
     /\ DefaultRun)
    => LET l == MulLayout
           x == input_bytes[2]
           y == input_bytes[3]
       IN /\ ~Raised
          /\ Progresses
          /\ Done => /\ Cell(tape, l.result) = (x * y) % DefaultCellSize
                     /\ Cell(tape, l.a) = 0
                     /\ Cell(tape, l.b) = y
                     /\ Cell(tape, l.tmp) = 0
                     /\ Cell(tape, l.other) = input_bytes[1]
                     /\ DOMAIN tape \subseteq {l.result, l.b, l.other}
                     /\ ip = Len(ops)

C13_Witness ==
    /\ Done
    /\ ops = MulPrograms[GenMulLayout]
    /\ DefaultRun
    /\ input_bytes = <<Sentinel, 17, 16>>
    /\ Cell(tape, 4) = 16
    /\ Cell(tape, 2) = 0
    /\ Cell(tape, 3) = 16
    /\ Cell(tape, 6) = Sentinel

\* the layout of the program of SpecPrint that is running
PrintLayout == CHOOSE l \in PrintLayouts : ops = PrintPrograms[l]

\* val_cell and the 14 workspace cells ws..ws+13
PrintCells(l) == {l.val_cell} \cup (l.ws)..(l.ws + 13)

\* C14: for every value v in val_cell and an all-zero workspace, when the
\* code of print_number(val_cell, ws) has finished, val_cell and the 14
\* cells ws..ws+13 are 0 again; no instruction other than a move of the
\* pointer is ever executed on a cell outside val_cell and ws..ws+13, so no
\* other cell is read or modified, and none ever holds anything but 0.
C14_Cleanup ==
    (/\ \E l \in PrintLayouts : ops = PrintPrograms[l]
     /\ DefaultRun
     /\ Len(input_bytes) = 1)
    => LET l == PrintLayout
       IN /\ ~Raised
          /\ DOMAIN tape \subseteq PrintCells(l)
          /\ (phase = "run" /\ ip < Len(ops) /\ ops[ip + 1] \notin {">", "<"})
                => ptr \in PrintCells(l)
          /\ Done => /\ \A i \in PrintCells(l) : Cell(tape, i) = 0
                     /\ tape = EmptyTape
                     /\ ip = Len(ops)

C14_Witness ==
    /\ Done
    /\ ops = PrintPrograms[GenLayout]
    /\ DefaultRun
    /\ input_bytes = <<255>>
    /\ output = <<Zero + 2, Zero + 5, Zero + 5>>
    /\ tape = EmptyTape

-----------------------------------------------------------------------------
(* The generated program on arbitrary inputs, under SpecAny.               *)

\* for each instruction of the generated program, the cell the emitter
\* takes the pointer to be on when it runs
GenCursor == bf_cursor(generate_bf)

\* C15: in every run of the generated program, on every input, an
\* instruction that an emitter operation appended for its target cell c is
\* executed with the data pointer on c; the hand-written loop of divmod_10
\* is opened and closed with the pointer on base+1; and every tracked loop
\* closes on the cell it opened on.
C15_Cursor ==
    (ops = generate)
    => /\ Len(GenCursor) = Len(ops)
       /\ (phase = "run" /\ ip < Len(ops))
             => \A c \in GenCursor[ip + 1] : ptr = c
       /\ (phase = "run" /\ steps = 0)
             => \A i \in DOMAIN brackets : GenCursor[i + 1] = GenCursor[brackets[i] + 1]

C15_Witness ==
    /\ phase = "run"
    /\ ops = generate
    /\ DefaultRun
    /\ ~IsWellFormed(input_bytes)
    /\ ip < Len(ops)
    /\ ops[ip + 1] = "]"
    /\ GenCursor[ip + 1] = {8}
    /\ ptr = 8
    /\ Cell(tape, 8) > 0

-----------------------------------------------------------------------------
(* The jump table, under Spec.                                             *)

\* the positions (from 0) of the brackets of the stream
BracketPositions == {i \in 0..(Len(ops) - 1) : ops[i + 1] \in {"[", "]"}}

\* an instruction is about to be executed
Executing(c) ==
    /\ phase = "run"
    /\ ip < Len(ops)
    /\ steps < max_steps
    /\ ops[ip + 1] = c

\* C16: for every stream with balanced brackets the load succeeds and the
\* jump table pairs every bracket: brackets[brackets[i]] = i, the partner of
\* a LoopOpen is a LoopClose after it, and the instructions strictly between
\* the two are balanced (matching by nesting).  At run time a LoopOpen on a
\* zero cell continues right after its matched LoopClose and otherwise with
\* the next instruction; a LoopClose on a nonzero cell continues with the
\* first instruction after its matched LoopOpen and otherwise with the next
\* instruction; neither changes the tape, the data pointer, the input
\* cursor or the output.
C16_JumpTable ==
    /\ []((Balanced(ops) /\ phase # "load")
           => /\ ~StructuralError
              /\ DOMAIN brackets = BracketPositions
              /\ \A i \in DOMAIN brackets :
                    /\ brackets[i] \in DOMAIN brackets
                    /\ brackets[brackets[i]] = i
                    /\ ops[i + 1] = "["
                          => /\ brackets[i] > i
                             /\ ops[brackets[i] + 1] = "]"
                             /\ Balanced(SubSeq(ops, i + 2, brackets[i])))
    /\ [][Executing("[")
            => /\ ip' = IF Cell(tape, ptr) = 0 THEN brackets[ip] + 1 ELSE ip + 1
               /\ UNCHANGED <<tape, tape_len, ptr, input_pos, output, brackets>>]_vars
    /\ [][Executing("]")
            => /\ ip' = IF Cell(tape, ptr) # 0 THEN brackets[ip] + 1 ELSE ip + 1
               /\ UNCHANGED <<tape, tape_len, ptr, input_pos, output, brackets>>]_vars

C16_Witness ==
    /\ Done
    /\ ops = <<"+", "[", "[", "-", "]", "[", "]", "]">>
    /\ brackets[1] = 7
    /\ brackets[2] = 4
    /\ brackets[5] = 6
    /\ steps = 7

-----------------------------------------------------------------------------
(* Products that pass the range of a cell, under SpecWrap.                 *)

\* c1*1, c2*2, ..., ck*k, each reduced to the range of a cell
WrappedProducts(cs) == [i \in 1..(Len(cs) - 1) |-> (cs[i + 1] * i) % DefaultCellSize]

WrappedLine(cs) ==
    SpacedDecimals(WrappedProducts(cs), Len(cs) - 1) \o <<Newline>>

\* C17: on a well-formed input in which some product ci*i exceeds 255 the
\* generated program never fails and runs to its end; it returns, at every
\* position i, the decimal representation of (ci*i) mod 256, so that the
\* positions whose product is at most 255 and the separators are as without
\* the overflow; what it has written so far is always a prefix of that line.
C17_Wrap ==
    (/\ ops = generate
     /\ DefaultRun
     /\ IsWellFormed(input_bytes)
     /\ \E i \in 1..(Len(Coeffs(input_bytes)) - 1) :
            Products(Coeffs(input_bytes))[i] > 255)
    => /\ ~Raised
       /\ Progresses
       /\ IsPrefix(output, WrappedLine(Coeffs(input_bytes)))
       /\ Done => /\ output = WrappedLine(Coeffs(input_bytes))
                  /\ Returned(output)

C17_Witness ==
    /\ Done
    /\ ops = generate
    /\ DefaultRun
    /\ input_bytes = WellFormed(WrapCase)
    /\ Products(Coeffs(input_bytes))[29] = 261
    /\ SubSeq(output, Len(output) - 3, Len(output)) = <<Zero, Space, Zero + 5, Newline>>
    /\ Returned(output)

\* the Reads executed so far that found the input at its end
EofReads == reads - input_pos

\* the number of leading separators of the input that are spaces: the
\* bytes 2, 4, ... up to the first that is missing or not a space
SepSpaces(inp) ==
    Cardinality({k \in 1..(Len(inp) \div 2) : \A j \in 1..k : inp[2 * j] = Space})

\* the run has ended with the instruction pointer past the end of the program
Halted == Done /\ ip = Len(ops) /\ Returned(output)

\* C18, as stated: on every input the run of the generated program halts
\* with the instruction pointer past the end of the program, the main loop
\* runs once per space read as a separator, and the main loop ends at the
\* latest at the first Read that finds the input at its end: no Read of the
\* main loop follows one that found the end of the input.
C18_Original ==
    /\ (ops = generate /\ DefaultRun) ~> Halted
    /\ []((ops = generate /\ DefaultRun /\ Done)
            => reads = 2 + 2 * SepSpaces(input_bytes))
    /\ []((ops = generate /\ DefaultRun /\ phase = "run" /\ InMainLoop)
            => EofReads <= 1)

\* C18, amended: on every input the run of the generated program halts with
\* the instruction pointer past the end of the program, never fails, and the
\* main loop runs once per space read as a separator; it ends at the latest
\* at the first separator Read that finds the input at its end, so that at
\* most two Reads (the digit and the separator of one iteration) find the
\* input at its end.
C18_Termination ==
    /\ (ops = generate /\ DefaultRun) ~> Halted
    /\ []((ops = generate /\ DefaultRun) => ~Raised)
    /\ []((ops = generate /\ DefaultRun /\ Done)
            => reads = 2 + 2 * SepSpaces(input_bytes))
    /\ []((ops = generate /\ DefaultRun) => EofReads <= 2)

C18_Witness ==
    /\ Halted
    /\ ops = generate
    /\ DefaultRun
    /\ input_bytes = <<Zero + 9, Space>>
    /\ reads = 4
    /\ EofReads = 2

\* the positions of the "[" and the "]" of the main loop (lines 262, 308)
MainOpen == brackets[Len(ops) - 1]

MainClose == Len(ops) - 1

\* the iterations of the main loop completed so far, where its test is
\* reached: two Reads before the loop and two in every iteration
Iterations == (reads - 2) \div 2

\* C19: on every input, each time the run of the generated program reaches
\* the test of the main loop on cell 0 (its "[" on entry, its "]" after
\* every iteration) after j completed iterations, the pointer is on cell 0,
\* cell 3 holds (j+1) mod 256, cell 0 holds 0 or 1 and cells 1, 2, 4, 5, 6
\* and 7..20 hold 0.
C19_LoopInvariant ==
    (/\ ops = generate
     /\ DefaultRun
     /\ phase = "run"
     /\ ip \in {MainOpen, MainClose})
    => /\ reads % 2 = 0
       /\ reads >= 2
       /\ ip = MainOpen => reads = 2
       /\ ip = MainClose => reads > 2
       /\ ptr = 0
       /\ Cell(tape, 3) = (Iterations + 1) % DefaultCellSize
       /\ Cell(tape, 0) \in {0, 1}
       /\ \A i \in {1, 2, 4, 5, 6} \cup 7..20 : Cell(tape, i) = 0

C19_Witness ==
    /\ phase = "run"
    /\ ops = generate
    /\ DefaultRun
    /\ ip = MainClose
    /\ input_bytes = <<Zero + 1, Space, Zero + 2, Space>>
    /\ Iterations = 1
    /\ Cell(tape, 3) = 2
    /\ Cell(tape, 0) = 1

\* C20: on every input, in the run of the generated program the data
\* pointer stays in 0..20, no cell beyond cell 20 is ever nonzero, the run
\* never fails with the bounds error and the tape keeps its first length.
C20_PointerRange ==
    (ops = generate /\ DefaultRun)
    => /\ ptr \in 0..20
       /\ DOMAIN tape \subseteq 0..20
       /\ ~BoundsFailed
       /\ ~Raised
       /\ tape_len = TapeInitLen

C20_Witness ==
    /\ phase = "run"
    /\ ops = generate
    /\ DefaultRun
    /\ ~IsWellFormed(input_bytes)
    /\ ptr = 20
    /\ Cell(tape, 20) = 1
    /\ Cell(tape, 19) = 1

====
